---- MODULE Spec2Model ----
(***************************************************************************)
(* quick-csv: the buffered row scanner (read_line, consume_quote!), the    *)
(* row iterator (Csv::next), the reader configuration (delimiter,          *)
(* flexible, has_header, headers) and the column view (BytesColumns,       *)
(* Columns).  Bytes are integers, a byte string is a sequence of bytes,    *)
(* indices in the comments are the zero-based indices of the Rust source.  *)
(***************************************************************************)
EXTENDS Integers, Sequences, FiniteSets, TLC

(***************************************************************************)
(* Bytes the scanner distinguishes.                                        *)
(***************************************************************************)
QUOTE == 34
COMMA == 44
CR == 13
LF == 10
ZED == 122
BIGS == 83
SMALLS == 115
PLUS == 43
ONE == 49
BAD == 255

\* Bounds of the model: the longest input of arbitrary bytes, of arbitrary
\* bytes cut into chunks, of unquoted bytes; the most pieces of content in a
\* quoted field; the None results after which the caller stops asking; the
\* longest input with a failing source; the most fields of a row to decode;
\* the longest input scanned under any delimiter; the most interrupted
\* fill_bufs of a source; the longest input read to its end by a caller who
\* keeps calling.
MaxLen == 4
MaxChunkLen == 4
MaxPlainLen == 5
MaxContent == 3
MaxNone == 2
MaxIoLen == 3
MaxFields == 3
MaxRowLen == 5
MaxIntr == 2
MaxLiveLen == 4

Alphabet == {QUOTE, COMMA, ZED, CR, LF}
Delimiters == {COMMA, ZED}

\* The reader is a sequence of pending fill_buf results: a non-empty byte
\* string is a chunk of data, EINTR and EIO are failures of fill_buf.
EINTR == <<-1>>
EIO == <<-2>>

\* available[a..b] of the source: the bytes at zero-based indices a .. b-1.
Slice(s, a, b) == SubSeq(s, a + 1, b)

(***************************************************************************)
(* consume_quote!: entered with the iterator `pos` just after an opening   *)
(* quote (or at the start of a chunk when the previous chunk ended inside  *)
(* quotes).  Result: the iterator, start, buf and quote_count as the macro *)
(* leaves them, in_quote, and err = "UnescapedQuote" for the early return. *)
(***************************************************************************)
\* An end of quoted section that CR does not make.
closes_quote_but_cr(d, delim) ==
    d = LF \/ d = delim

\* The arms `Some((_, &b'\r')) | Some((_, &b'\n')) => break` and
\* `Some((_, d)) if *d == $delimiter => break`: after a quote, the byte d
\* ends the quoted section.
closes_quote(d, delim) ==
    d = CR \/ d = LF \/ d = delim

quote_result(e, pos, start, buf, quote_count, in_quote) ==
    [err |-> e, pos |-> pos, start |-> start, buf |-> buf,
     quote_count |-> quote_count, in_quote |-> in_quote]

RECURSIVE consume_quote(_, _, _, _, _, _)
consume_quote(available, delim, pos, start, buf, quote_count) ==
    IF pos >= Len(available)
    THEN quote_result("", pos, start, buf, quote_count, TRUE)
    ELSE IF available[pos + 1] # QUOTE
    THEN consume_quote(available, delim, pos + 1, start, buf, quote_count)
    ELSE IF pos + 1 >= Len(available)
    THEN quote_result("", pos + 1, start, buf, quote_count, FALSE)
    ELSE IF available[pos + 2] = QUOTE
    THEN consume_quote(available, delim, pos + 2, pos + 2,
                       buf \o Slice(available, start, pos + 1),
                       quote_count + 1)
    ELSE IF closes_quote(available[pos + 2], delim)
    THEN quote_result("", pos + 1, start, buf, quote_count, FALSE)
    ELSE quote_result("UnescapedQuote", pos + 1, start, buf, quote_count, FALSE)

\* A quote that opens a quoted section wherever it stands.
quote_opens_anywhere(available, delim, i) ==
    TRUE

\* A quote that opens a quoted section only at the start of the chunk.
quote_opens_at_start(available, delim, i) ==
    i = 0

\* `i == 0 || available[i - 1] == delimiter`: may a quote at index i open a
\* quoted section.
quote_opens(available, delim, i) ==
    i = 0 \/ available[i] = delim

\* An offset that forgets the escaping quotes dropped from the buffer.
field_end_raw(read, i, quote_count) ==
    read + i

\* `read + i - quote_count`: the offset pushed for a delimiter at index i.
field_end(read, i, quote_count) ==
    read + i - quote_count

(***************************************************************************)
(* The inner `loop` of read_line over one chunk.  Result: err, done, used, *)
(* and buf, cols, quote_count, in_quote as the loop leaves them.           *)
(* after_quote is the arm of a quote that opens a quoted section, with q   *)
(* the result of consume_quote!.                                           *)
(***************************************************************************)
scan_result(e, dn, u, b, cols, quote_count, in_quote) ==
    [err |-> e, done |-> dn, used |-> u, buf |-> b, cols |-> cols,
     quote_count |-> quote_count, in_quote |-> in_quote]

RECURSIVE scan_chunk(_, _, _, _, _, _, _, _, _)
RECURSIVE after_quote(_, _, _, _, _, _)
scan_chunk(available, delim, read, pos, start, buf, cols, quote_count, in_quote) ==
    IF pos >= Len(available)
    THEN scan_result("", FALSE, Len(available),
                     buf \o Slice(available, start, Len(available)),
                     cols, quote_count, in_quote)
    ELSE IF available[pos + 1] = QUOTE
    THEN IF quote_opens(available, delim, pos)
         THEN after_quote(available, delim, read, buf, cols,
                          consume_quote(available, delim, pos + 1, start, buf,
                                        quote_count))
         ELSE scan_result("UnexpectedQuote", FALSE, 0, buf, cols, quote_count,
                          in_quote)
    ELSE IF available[pos + 1] = LF
    THEN scan_result("", TRUE, pos + 1, buf \o Slice(available, start, pos),
                     cols, quote_count, in_quote)
    ELSE scan_chunk(available, delim, read, pos + 1, start, buf,
                    IF available[pos + 1] = delim
                      THEN Append(cols, field_end(read, pos, quote_count))
                      ELSE cols,
                    quote_count, in_quote)

after_quote(available, delim, read, buf, cols, q) ==
    IF q.err # ""
    THEN scan_result(q.err, FALSE, 0, buf, cols, q.quote_count, q.in_quote)
    ELSE scan_chunk(available, delim, read, q.pos, q.start, q.buf, cols,
                    q.quote_count, q.in_quote)

\* r.consume(used) on the pending chunks.
consume(r, used) ==
    IF used >= Len(Head(r))
    THEN Tail(r)
    ELSE <<Slice(Head(r), used, Len(Head(r)))>> \o Tail(r)

\* `if in_quote { consume_quote!(...) }` at the start of a chunk.
resume_quote(available, delim, buf, quote_count, in_quote) ==
    IF in_quote
    THEN consume_quote(available, delim, 0, 0, buf, quote_count)
    ELSE [err |-> "", pos |-> 0, start |-> 0, buf |-> buf,
          quote_count |-> quote_count, in_quote |-> FALSE]

read_result(res, n, buf, cols, r) ==
    [res |-> res, n |-> n, buf |-> buf, cols |-> cols, r |-> r]

(***************************************************************************)
(* The `while !done` loop of read_line.  Result: res = "Ok" with n = read, *)
(* or res = the error; buf and cols as written; r the reader afterwards.   *)
(* scan_available is one turn on a chunk of data, with q the state after   *)
(* the resumed quote; chunk_scanned is the end of the turn, with s the     *)
(* result of the inner loop.                                               *)
(***************************************************************************)
RECURSIVE read_line_loop(_, _, _, _, _, _, _)
RECURSIVE scan_available(_, _, _, _, _, _)
RECURSIVE chunk_scanned(_, _, _, _, _, _)
\* A loop that gives up on an interrupted fill_buf as on any other failure.
read_line_gives_up(r, buf, delim, cols, read, in_quote, quote_count) ==
    IF r = <<>>
    THEN read_result("Ok", read, buf, cols, r)
    ELSE IF Head(r) = EINTR \/ Head(r) = EIO
    THEN read_result("Io", read, buf, cols, Tail(r))
    ELSE scan_available(r, buf, delim, cols, read,
                        resume_quote(Head(r), delim, buf, quote_count, in_quote))

read_line_loop(r, buf, delim, cols, read, in_quote, quote_count) ==
    IF r = <<>>
    THEN read_result("Ok", read, buf, cols, r)
    ELSE IF Head(r) = EINTR
    THEN read_line_loop(Tail(r), buf, delim, cols, read, in_quote, quote_count)
    ELSE IF Head(r) = EIO
    THEN read_result("Io", read, buf, cols, Tail(r))
    ELSE scan_available(r, buf, delim, cols, read,
                        resume_quote(Head(r), delim, buf, quote_count, in_quote))

scan_available(r, buf, delim, cols, read, q) ==
    IF q.err # ""
    THEN read_result(q.err, read, buf, cols, r)
    ELSE chunk_scanned(r, buf, delim, cols, read,
                       scan_chunk(Head(r), delim, read, q.pos, q.start, q.buf,
                                  cols, q.quote_count, q.in_quote))

chunk_scanned(r, buf, delim, cols, read, s) ==
    IF s.err # ""
    THEN read_result(s.err, read, buf, cols, r)
    ELSE IF s.done
    THEN read_result("Ok", read + s.used, s.buf, s.cols, consume(r, s.used))
    ELSE read_line_loop(consume(r, s.used), s.buf, delim, s.cols,
                        read + s.used, s.in_quote, s.quote_count)

read_line(r, delim) ==
    read_line_loop(r, <<>>, delim, <<>>, 0, FALSE, 0)

(***************************************************************************)
(* Column view.  BytesColumns::next and Columns::next slice the row buffer *)
(* between the cursor and the next field-end offset and strip one byte at  *)
(* each end when the slice starts with a quote.  A slice whose bounds are  *)
(* out of order or out of range panics.                                    *)
(***************************************************************************)
strip_quotes(s) ==
    IF Len(s) > 0 /\ s[1] = QUOTE
    THEN IF Len(s) - 1 < 1
         THEN [panic |-> TRUE, s |-> <<>>]
         ELSE [panic |-> FALSE, s |-> Slice(s, 1, Len(s) - 1)]
    ELSE [panic |-> FALSE, s |-> s]

\* One call of next() with the cursor at pos and p the next field-end offset.
\* A cursor left on the delimiter instead of after it.
sliced_on_delimiter(t, p) == [panic |-> t.panic, s |-> t.s, pos |-> p]

sliced(t, p) == [panic |-> t.panic, s |-> t.s, pos |-> p + 1]

columns_next(line, pos, p) ==
    IF pos > p \/ p > Len(line)
    THEN [panic |-> TRUE, s |-> <<>>, pos |-> pos]
    ELSE sliced(strip_quotes(Slice(line, pos, p)), p)

\* The view iterated to its end (collect, or decode into Vec<String>): the
\* fields from the k-th on, or the panic of one of them.
RECURSIVE columns_collect(_, _, _, _)
RECURSIVE collect_from(_, _, _, _)
RECURSIVE collected(_, _)
columns_collect(line, cols, k, pos) ==
    IF k > Len(cols)
    THEN [panic |-> FALSE, fields |-> <<>>]
    ELSE collect_from(line, cols, k, columns_next(line, pos, cols[k]))

collect_from(line, cols, k, c) ==
    IF c.panic
    THEN [panic |-> TRUE, fields |-> <<>>]
    ELSE collected(c.s, columns_collect(line, cols, k + 1, c.pos))

collected(field, rest) ==
    IF rest.panic
    THEN [panic |-> TRUE, fields |-> <<>>]
    ELSE [panic |-> FALSE, fields |-> <<field>> \o rest.fields]

\* Row::bytes_columns().collect()
bytes_columns(row) == columns_collect(row.line, row.cols, 1, 0)

\* A conversion to text that accepts every byte string.
from_utf8_unchecked(line) == TRUE

\* std::str::from_utf8 on the bytes of the model: ASCII is valid, a byte
\* of 128 or more (never part of a multi-byte sequence here) is not.
from_utf8_ok(line) == \A k \in 1..Len(line) : line[k] < 128

(***************************************************************************)
(* Items returned by Csv::next.                                            *)
(***************************************************************************)
ItemNone == [kind |-> "none", line |-> <<>>, cols |-> <<>>, err |-> "", n |-> 0, c |-> 0]
ItemRow(line, cols) ==
    [kind |-> "row", line |-> line, cols |-> cols, err |-> "", n |-> 0, c |-> 0]
ItemErr(e, n, c) ==
    [kind |-> "err", line |-> <<>>, cols |-> <<>>, err |-> e, n |-> n, c |-> c]

\* A row buffer that keeps its CR.
pop_cr_never(buf) ==
    buf

\* buf.ends_with(&[b'\r']) then buf.pop()
pop_cr(buf) ==
    IF Len(buf) > 0 /\ buf[Len(buf)] = CR THEN Slice(buf, 0, Len(buf) - 1) ELSE buf

\* A field-count check that flexible mode does not switch off.
column_mismatch_always(self_len, c, self_flexible) ==
    self_len # <<>> /\ self_len[1] # c

\* The field-count check of Csv::next on a row of c fields: TRUE when the
\* row is refused with ColumnMismatch.
column_mismatch(self_len, c, self_flexible) ==
    self_len # <<>> /\ self_len[1] # c /\ ~self_flexible

(***************************************************************************)
(* Csv::next on the reader state `self` (the fields of Csv).  Result: the  *)
(* item returned and `self` afterwards.  line_read is the match on the     *)
(* result rl of read_line, row_read its Ok(_n) arm with the row's buffer   *)
(* and offsets.                                                            *)
(***************************************************************************)
\* A line count that counts the refused rows too.
row_counted_first(self, buf, cols) ==
    IF column_mismatch(self.len, Len(cols), self.flexible)
    THEN [item |-> ItemErr("ColumnMismatch", self.len[1], Len(cols)),
          self |-> [self EXCEPT !.exit = TRUE,
                                !.current_line = self.current_line + 1]]
    ELSE [item |-> ItemRow(buf, cols),
          self |-> [self EXCEPT
                      !.len = IF self.len = <<>> THEN <<Len(cols)>> ELSE self.len,
                      !.current_line = self.current_line + 1]]

row_read(self, buf, cols) ==
    IF column_mismatch(self.len, Len(cols), self.flexible)
    THEN [item |-> ItemErr("ColumnMismatch", self.len[1], Len(cols)),
          self |-> [self EXCEPT !.exit = TRUE]]
    ELSE [item |-> ItemRow(buf, cols),
          self |-> [self EXCEPT
                      !.len = IF self.len = <<>> THEN <<Len(cols)>> ELSE self.len,
                      !.current_line = self.current_line + 1]]

push_end(self, cols, buf) == row_read(self, buf, Append(cols, Len(buf)))

\* A match on the result of read_line that leaves the exit flag alone.
line_read_on(self, rl) ==
    IF rl.res # "Ok"
    THEN [item |-> ItemErr(rl.res, 0, 0), self |-> [self EXCEPT !.reader = rl.r]]
    ELSE IF rl.n = 0
    THEN [item |-> ItemNone, self |-> [self EXCEPT !.reader = rl.r]]
    ELSE push_end([self EXCEPT !.reader = rl.r], rl.cols, pop_cr(rl.buf))

\* A match that takes Ok(0) for a row like any other.
line_read_empty_row(self, rl) ==
    IF rl.res # "Ok"
    THEN [item |-> ItemErr(rl.res, 0, 0),
          self |-> [self EXCEPT !.reader = rl.r, !.exit = TRUE]]
    ELSE push_end([self EXCEPT !.reader = rl.r], rl.cols, pop_cr(rl.buf))

line_read(self, rl) ==
    IF rl.res # "Ok"
    THEN [item |-> ItemErr(rl.res, 0, 0),
          self |-> [self EXCEPT !.reader = rl.r, !.exit = TRUE]]
    ELSE IF rl.n = 0
    THEN [item |-> ItemNone, self |-> [self EXCEPT !.reader = rl.r]]
    ELSE push_end([self EXCEPT !.reader = rl.r], rl.cols, pop_cr(rl.buf))

\* A Csv::next that scans whatever the exit flag says.
next_again(self) ==
    line_read(self, read_line(self.reader, self.delimiter))

next(self) ==
    IF self.exit
    THEN [item |-> ItemNone, self |-> self]
    ELSE line_read(self, read_line(self.reader, self.delimiter))

\* r.decode().ok().unwrap_or_else(Vec::new) with the target Vec<String>:
\* every field of the row as text, or the empty vector when the row is not
\* valid UTF-8.
decode_vec_string(row) ==
    IF ~from_utf8_ok(row.line)
    THEN [panic |-> FALSE, fields |-> <<>>]
    ELSE columns_collect(row.line, row.cols, 1, 0)

\* A headers() that reads a row whether or not header mode is enabled.
headers_call_always(self) ==
    IF self.headers # <<>>
    THEN [ret |-> self.headers[1], self |-> self, panic |-> FALSE]
    ELSE [ret |-> <<>>, self |-> next(self).self, panic |-> FALSE]

(***************************************************************************)
(* Csv::headers on `self`.  Result: the vector returned, `self`            *)
(* afterwards, and whether the decode panicked.  header_read is the body   *)
(* of `if let Some(r) = self.next()`, header_decoded that of               *)
(* `if let Ok(r) = r`.                                                     *)
(***************************************************************************)
\* A header row that does not count: the expected field count is left to the
\* first data row.
header_uncounted(self, h) ==
    IF h.panic
    THEN [ret |-> <<>>, self |-> self, panic |-> TRUE]
    ELSE [ret |-> h.fields,
          self |-> [self EXCEPT !.headers = <<h.fields>>, !.len = <<>>],
          panic |-> FALSE]

header_decoded(self, h) ==
    IF h.panic
    THEN [ret |-> <<>>, self |-> self, panic |-> TRUE]
    ELSE [ret |-> h.fields, self |-> [self EXCEPT !.headers = <<h.fields>>],
          panic |-> FALSE]

\* A header row that is read and not kept.
header_dropped(nx) ==
    [ret |-> <<>>, self |-> nx.self, panic |-> FALSE]

header_read(nx) ==
    IF nx.item.kind = "row"
    THEN header_decoded(nx.self, decode_vec_string(nx.item))
    ELSE [ret |-> <<>>, self |-> nx.self, panic |-> FALSE]

headers_call(self) ==
    IF self.headers # <<>>
    THEN [ret |-> self.headers[1], self |-> self, panic |-> FALSE]
    ELSE IF self.has_header
    THEN header_read(next(self))
    ELSE [ret |-> <<>>, self |-> self, panic |-> FALSE]

(***************************************************************************)
(* Columns, the text view of a row: the row's text and offsets, the cursor *)
(* pos and the iterator over the offsets, k being the (one-based) index of *)
(* the offset it yields next.                                              *)
(***************************************************************************)
Columns_new(line, cols) == [line |-> line, cols |-> cols, pos |-> 0, k |-> 1]

\* ExactSizeIterator::len: the offsets the iterator still has.
columns_len(v) == Len(v.cols) - v.k + 1

no_column(v) == [some |-> FALSE, panic |-> FALSE, s |-> <<>>, v |-> v]

\* Columns::next: Some(field) with the cursor moved behind it, or None.
advanced(v, c) ==
    [some |-> TRUE, panic |-> c.panic, s |-> c.s,
     v |-> [v EXCEPT !.pos = c.pos, !.k = v.k + 1]]

next_column(v) ==
    IF v.k > Len(v.cols)
    THEN no_column(v)
    ELSE advanced(v, columns_next(v.line, v.pos, v.cols[v.k]))

\* Columns::peek: the field next() would return, the view left as it is.
peeked(v, c) == [some |-> TRUE, panic |-> c.panic, s |-> c.s, v |-> v]

peek(v) ==
    IF v.k > Len(v.cols)
    THEN no_column(v)
    ELSE peeked(v, columns_next(v.line, v.pos, v.cols[v.k]))

(***************************************************************************)
(* Results of the decoder: Ok(val) or an Error, with the view as the call  *)
(* leaves it.  The message of a Decode error is kept as the text of its    *)
(* format string and the values formatted into it.                         *)
(***************************************************************************)
NoMessage == [text |-> "", n |-> 0, col |-> <<>>, names |-> <<>>]

Done(val, v) == [res |-> "Ok", val |-> val, msg |-> NoMessage, v |-> v]

Failed(e, msg, v) == [res |-> e, val |-> <<>>, msg |-> msg, v |-> v]

Panic(v) == Failed("panic", NoMessage, v)

\* Error::EOL
EOL(v) == Failed("EOL", NoMessage, v)

\* format!("Failed converting {}th column ('{}'):\n\t{:?}", self.len(), col, e)
failed_converting(n, col) ==
    [text |-> "Failed converting {}th column ('{}')", n |-> n, col |-> col,
     names |-> <<>>]

\* format!("Expected a single char, found {} chars", col.len())
expected_single_char(n) ==
    [text |-> "Expected a single char, found {} chars", n |-> n, col |-> <<>>,
     names |-> <<>>]

\* format!("Could not load value into any variant in {:?}", names)
could_not_load(names) ==
    [text |-> "Could not load value into any variant in {:?}", n |-> 0,
     col |-> <<>>, names |-> names]

\* io::Error::new(io::ErrorKind::InvalidData, "stream did not contain valid UTF-8")
invalid_data ==
    [text |-> "stream did not contain valid UTF-8", n |-> 0, col |-> <<>>,
     names |-> <<>>]

(***************************************************************************)
(* FromStr of the scalar kinds: usize (decimal digits, with an optional    *)
(* plus sign) and String (any text).  The result is <<value>> or <<>>.     *)
(***************************************************************************)
digits(s) == s # <<>> /\ \A i \in 1..Len(s) : s[i] \in 48..57

RECURSIVE decimal(_)
decimal(s) ==
    IF s = <<>> THEN 0 ELSE decimal(SubSeq(s, 1, Len(s) - 1)) * 10 + (s[Len(s)] - 48)

usize_from_str(s) ==
    IF digits(s) THEN <<decimal(s)>>
    ELSE IF Len(s) > 1 /\ s[1] = PLUS /\ digits(Tail(s)) THEN <<decimal(Tail(s))>>
    ELSE <<>>

from_str(kind, s) == IF kind = "String" THEN <<s>> ELSE usize_from_str(s)

\* Columns::next_str::<T>, with nx the result of self.next(): self.len() in
\* the message is evaluated after that call.
converted(kind, nx) ==
    IF ~nx.some THEN EOL(nx.v)
    ELSE IF nx.panic THEN Panic(nx.v)
    ELSE IF from_str(kind, nx.s) # <<>> THEN Done(from_str(kind, nx.s)[1], nx.v)
    ELSE Failed("Decode", failed_converting(columns_len(nx.v), nx.s), nx.v)

next_str(v, kind) == converted(kind, next_column(v))

\* Columns::read_char
single_char(nx) ==
    IF ~nx.some THEN EOL(nx.v)
    ELSE IF nx.panic THEN Panic(nx.v)
    ELSE IF Len(nx.s) # 1
    THEN Failed("Decode", expected_single_char(Len(nx.s)), nx.v)
    ELSE Done(nx.s[1], nx.v)

read_char(v) == single_char(next_column(v))

(***************************************************************************)
(* The shapes a row is decoded into (the Decodable target types): scalars, *)
(* char, Option<T>, tuples, Vec<T> and enums with their variant names and, *)
(* per variant, the tuple of its arguments.                                *)
(***************************************************************************)
Scalar(kind) == [kind |-> kind, of |-> <<>>, names |-> <<>>]
Usize == Scalar("usize")
StringT == Scalar("String")
Char == Scalar("char")
Option(t) == [kind |-> "Option", of |-> <<t>>, names |-> <<>>]
Tuple(ts) == [kind |-> "tuple", of |-> ts, names |-> <<>>]
Vec(t) == [kind |-> "Vec", of |-> <<t>>, names |-> <<>>]
Enum(names, variants) == [kind |-> "enum", of |-> variants, names |-> names]

\* A search that settles on the first name.
position_first(names, name) == <<1>>

\* names.iter().position(|&n| n == name): <<index>> of the first equal name,
\* or <<>>.
position(names, name) ==
    IF \E i \in 1..Len(names) : names[i] = name
    THEN <<CHOOSE i \in 1..Len(names) :
              names[i] = name /\ \A j \in 1..(i - 1) : names[j] # name>>
    ELSE <<>>

(***************************************************************************)
(* Decodable::decode on the view v for a shape: the Decoder methods of     *)
(* Columns each shape calls, with the closure they are passed.             *)
(*   tuple   read_tuple / read_tuple_arg: the elements in order;           *)
(*   Option  read_option: option_peeked is its body with col the peeked    *)
(*           field, option_some is f(self, true).or_else(f(self, false));  *)
(*   enum    read_enum / read_enum_variant: variant_peeked is its body     *)
(*           with the peeked field, variant_args is f(self, i);            *)
(*   Vec     read_seq / read_seq_elt: len elements.                        *)
(***************************************************************************)
RECURSIVE decode(_, _)
RECURSIVE read_tuple(_, _, _, _)
RECURSIVE read_tuple_arg(_, _, _, _)
RECURSIVE read_option(_, _)
RECURSIVE option_peeked(_, _, _)
RECURSIVE read_enum_variant(_, _, _)
RECURSIVE variant_peeked(_, _, _, _)
RECURSIVE read_seq_elts(_, _, _, _)
RECURSIVE read_seq_elt(_, _, _, _)

read_tuple(elems, i, vals, v) ==
    IF i > Len(elems)
    THEN Done(vals, v)
    ELSE read_tuple_arg(elems, i, vals, decode(elems[i], v))

read_tuple_arg(elems, i, vals, r) ==
    IF r.res # "Ok" THEN r ELSE read_tuple(elems, i + 1, Append(vals, r.val), r.v)

\* An optional that hands on the error of the wrapped shape.
option_some_strict(r) ==
    IF r.res = "Ok" THEN Done(<<r.val>>, r.v) ELSE r

\* f(self, true).or_else(|_| f(self, false)), with r the result of decoding
\* the wrapped shape: Some(value), or None for any error.
option_some(r) ==
    IF r.res = "Ok" THEN Done(<<r.val>>, r.v)
    ELSE IF r.res = "panic" THEN r
    ELSE Done(<<>>, r.v)

\* `let _ = self.iter.next()`: the iterator moves on, pos stays.
iter_next(v) == [v EXCEPT !.k = v.k + 1]

option_peeked(v, inner, p) ==
    IF ~p.some THEN EOL(v)
    ELSE IF p.panic THEN Panic(v)
    ELSE IF p.s = <<>> THEN Done(<<>>, iter_next(v))
    ELSE option_some(decode(inner, v))

read_option(v, inner) == option_peeked(v, inner, peek(v))

variant_args(i, r) ==
    IF r.res = "Ok" THEN Done([variant |-> i, args |-> r.val], r.v) ELSE r

variant_peeked(v, names, variants, p) ==
    IF p.some /\ p.panic THEN Panic(v)
    ELSE IF ~p.some \/ position(names, p.s) = <<>>
    THEN Failed("Decode", could_not_load(names), v)
    ELSE variant_args(position(names, p.s)[1],
                      decode(variants[position(names, p.s)[1]], next_column(v).v))

read_enum_variant(v, names, variants) == variant_peeked(v, names, variants, peek(v))

read_seq_elts(elem, n, vals, v) ==
    IF n = 0
    THEN Done(vals, v)
    ELSE read_seq_elt(elem, n, vals, decode(elem, v))

read_seq_elt(elem, n, vals, r) ==
    IF r.res # "Ok" THEN r ELSE read_seq_elts(elem, n - 1, Append(vals, r.val), r.v)

\* A sequence of one element, whatever is left in the view.
read_seq_one(v, elem) == read_seq_elts(elem, 1, <<>>, v)

\* let len = self.iter.clone().count(); f(self, len)
read_seq(v, elem) == read_seq_elts(elem, columns_len(v), <<>>, v)

decode(shape, v) ==
    IF shape.kind = "char" THEN read_char(v)
    ELSE IF shape.kind = "Option" THEN read_option(v, shape.of[1])
    ELSE IF shape.kind = "tuple" THEN read_tuple(shape.of, 1, <<>>, v)
    ELSE IF shape.kind = "enum" THEN read_enum_variant(v, shape.names, shape.of)
    ELSE IF shape.kind = "Vec" THEN read_seq(v, shape.of[1])
    ELSE next_str(v, shape.kind)

\* Row::columns
row_columns(row) ==
    IF from_utf8_ok(row.line)
    THEN Done(<<>>, Columns_new(row.line, row.cols))
    ELSE Failed("Io", invalid_data, Columns_new(<<>>, <<>>))

\* Row::decode: `try!(self.columns())` and Decodable::decode on the view.
columns_decoded(shape, c) == IF c.res # "Ok" THEN c ELSE decode(shape, c.v)

row_decode(row, shape) == columns_decoded(shape, row_columns(row))

(***************************************************************************)
(* State: the fields of Csv, whether a panic has unwound the caller, and   *)
(* what the caller has observed: the input the reader was built on, the    *)
(* items Csv::next has returned, the state each of those calls started in, *)
(* the value the last headers() call returned, if there was a call, and    *)
(* what the caller last asked of a row (columns() or decode) with its      *)
(* result.                                                                 *)
(***************************************************************************)
VARIABLES delimiter, reader, has_header, headers, flexible, len, exit,
          current_line, panicked, input, out, calls, hret, dec

csv == <<delimiter, reader, has_header, headers, flexible, len, exit, current_line>>
vars == <<delimiter, reader, has_header, headers, flexible, len, exit,
          current_line, panicked, input, out, calls, hret, dec>>

Self ==
    [delimiter |-> delimiter, reader |-> reader, has_header |-> has_header,
     headers |-> headers, flexible |-> flexible, len |-> len, exit |-> exit,
     current_line |-> current_line]

\* The fields of Csv become those of s.
Store(s) ==
    /\ delimiter' = s.delimiter
    /\ reader' = s.reader
    /\ has_header' = s.has_header
    /\ headers' = s.headers
    /\ flexible' = s.flexible
    /\ len' = s.len
    /\ exit' = s.exit
    /\ current_line' = s.current_line

\* Csv::from_reader
from_reader(r) ==
    /\ delimiter = COMMA
    /\ reader = r
    /\ has_header = FALSE
    /\ headers = <<>>
    /\ flexible = FALSE
    /\ len = <<>>
    /\ exit = FALSE
    /\ current_line = 0

\* Byte strings of at most n bytes.
Inputs(n) == UNION {[1..k -> Alphabet] : k \in 0..n}

\* Csv::from_string: the byte slice is its own BufRead, fill_buf returns all
\* that is left.
from_string(s) == from_reader(IF s = <<>> THEN <<>> ELSE <<s>>)

\* Nothing asked of a row yet.
NoDecode == [op |-> "", k |-> 0, shape |-> Scalar(""), r |-> Done(<<>>, Columns_new(<<>>, <<>>))]

Fresh ==
    /\ panicked = FALSE
    /\ out = <<>>
    /\ calls = <<>>
    /\ hret = <<>>
    /\ dec = NoDecode

Init ==
    /\ input \in Inputs(MaxLen)
    /\ from_string(input)
    /\ Fresh

\* The builder methods take the reader by value and return it: they are
\* chained on the constructor, before the first row is asked for.
Building == ~panicked /\ out = <<>>

Delimiter(d) ==
    /\ Building
    /\ delimiter' = d
    /\ UNCHANGED <<reader, has_header, headers, flexible, len, exit,
                   current_line, panicked, input, out, calls, hret, dec>>

Flexible(b) ==
    /\ Building
    /\ flexible' = b
    /\ UNCHANGED <<delimiter, reader, has_header, headers, len, exit,
                   current_line, panicked, input, out, calls, hret, dec>>

\* The caller's view of a headers() call that returned h.
Returned(h) ==
    /\ Store(h.self)
    /\ panicked' = h.panic

HasHeader(b) ==
    /\ Building
    /\ Returned(headers_call([Self EXCEPT !.has_header = b]))
    /\ UNCHANGED <<input, out, calls, hret, dec>>

Headers ==
    /\ ~panicked
    /\ Returned(headers_call(Self))
    /\ hret' = <<headers_call(Self).ret>>
    /\ UNCHANGED <<input, out, calls, dec>>

\* Csv::next has returned None MaxNone times in a row: the caller stops
\* asking.
Drained ==
    /\ Len(out) >= MaxNone
    /\ \A k \in (Len(out) - MaxNone + 1)..Len(out) : out[k].kind = "none"

\* The caller's view of a Csv::next call that returned nx.
Yielded(nx) ==
    /\ Store(nx.self)
    /\ out' = Append(out, nx.item)

CsvNext ==
    /\ ~panicked
    /\ ~Drained
    /\ Yielded(next(Self))
    /\ calls' = Append(calls, Self)
    /\ UNCHANGED <<panicked, input, hret, dec>>

Next ==
    \/ \E d \in Delimiters : Delimiter(d)
    \/ \E b \in BOOLEAN : Flexible(b)
    \/ \E b \in BOOLEAN : HasHeader(b)
    \/ Headers
    \/ CsvNext

Spec == Init /\ [][Next]_vars

(***************************************************************************)
(* A reader that delivers the input in chunks: every way of cutting the    *)
(* input into non-empty chunks (a BufReader refills between any two        *)
(* bytes).                                                                 *)
(***************************************************************************)
RECURSIVE Splits(_)
Splits(s) ==
    IF s = <<>>
    THEN {<<>>}
    ELSE UNION {{<<SubSeq(s, 1, k)>> \o t : t \in Splits(SubSeq(s, k + 1, Len(s)))}
                : k \in 1..Len(s)}

InitChunked ==
    /\ input \in Inputs(MaxChunkLen)
    /\ \E r \in Splits(input) : from_reader(r)
    /\ Fresh

NextChunked ==
    \/ \E d \in Delimiters : Delimiter(d)
    \/ CsvNext

SpecChunked == InitChunked /\ [][NextChunked]_vars

(***************************************************************************)
(* Inputs written as rows: unquoted bytes, and rows with one quoted field  *)
(* whose content is made of plain bytes, delimiters, CR, LF and doubled    *)
(* quotes, between unquoted fields.                                        *)
(***************************************************************************)
RECURSIVE Cat(_, _)
Cat(T, n) ==
    IF n = 0
    THEN {<<>>}
    ELSE Cat(T, n - 1) \cup {t \o u : t \in T, u \in Cat(T, n - 1)}

PlainInputs == UNION {[1..k -> {ZED, COMMA, CR, LF}] : k \in 0..MaxPlainLen}

ContentPieces == {<<ZED>>, <<COMMA>>, <<CR>>, <<LF>>, <<QUOTE, QUOTE>>}
Before == {<<>>, <<ZED, COMMA>>}
After == {<<>>, <<LF>>, <<CR, LF>>, <<COMMA, ZED>>, <<COMMA, ZED, LF, ZED>>}

QuotedInputs ==
    {b \o <<QUOTE>> \o c \o <<QUOTE>> \o a :
        b \in Before, c \in Cat(ContentPieces, MaxContent), a \in After}

InitRows ==
    /\ input \in PlainInputs \cup QuotedInputs
    /\ from_string(input)
    /\ Fresh

NextRows ==
    \/ \E d \in Delimiters : Delimiter(d)
    \/ \E b \in BOOLEAN : Flexible(b)
    \/ CsvNext

SpecRows == InitRows /\ [][NextRows]_vars

(***************************************************************************)
(* A byte source that fails: the input cut into chunks, with at most one   *)
(* failure of fill_buf and at most one interrupted fill_buf among them.    *)
(***************************************************************************)
Inserted(r, f) ==
    {SubSeq(r, 1, i) \o <<f>> \o SubSeq(r, i + 1, Len(r)) : i \in 0..Len(r)}

Failing(r) == {r} \cup Inserted(r, EIO)
Interrupted(r) == {r} \cup Inserted(r, EINTR)

IoInputs == UNION {[1..k -> {ZED, COMMA, LF, QUOTE}] : k \in 0..MaxIoLen}

InitIo ==
    /\ input \in IoInputs
    /\ \E r \in Splits(input) : \E rf \in Failing(r) : \E ri \in Interrupted(rf) :
          from_reader(ri)
    /\ Fresh

NextIo ==
    \/ \E b \in BOOLEAN : Flexible(b)
    \/ \E b \in BOOLEAN : HasHeader(b)
    \/ Headers
    \/ CsvNext

SpecIo == InitIo /\ [][NextIo]_vars

(***************************************************************************)
(* What the caller asks of the row Csv::next returned last, once: its      *)
(* columns(), or its decode into a shape.  Both borrow the Row alone.      *)
(***************************************************************************)
\* The last item returned is a row, of which the caller has asked nothing yet.
HasRow ==
    /\ ~panicked
    /\ out # <<>>
    /\ out[Len(out)].kind = "row"
    /\ dec.k # Len(out)

\* The caller's view of a call on the last row that returned r.
Asked(op, shape, r) ==
    /\ dec' = [op |-> op, k |-> Len(out), shape |-> shape, r |-> r]
    /\ panicked' = (r.res = "panic")
    /\ UNCHANGED <<csv, input, out, calls, hret>>

RowColumns ==
    /\ HasRow
    /\ Asked("columns", Scalar(""), row_columns(out[Len(out)]))

Decode(shape) ==
    /\ HasRow
    /\ Asked("decode", shape, row_decode(out[Len(out)], shape))

(***************************************************************************)
(* Inputs with bytes that are not UTF-8, read row by row, the caller       *)
(* asking each row for its text columns or for its fields as strings.      *)
(***************************************************************************)
ByteInputs == UNION {[1..k -> {BAD, ZED, COMMA, LF}] : k \in 0..MaxLen}

InitBytes ==
    /\ input \in ByteInputs
    /\ from_string(input)
    /\ Fresh

NextBytes ==
    \/ CsvNext
    \/ RowColumns
    \/ Decode(Vec(StringT))

SpecBytes == InitBytes /\ [][NextBytes]_vars

(***************************************************************************)
(* Rows to decode: up to MaxFields fields (empty, quoted empty, a number,  *)
(* letters, a quoted letter) separated by commas, and the shapes they are  *)
(* decoded into: scalars, char, options, an enum with the unit variant S   *)
(* and the variant Ss(usize), sequences, alone, in a tuple, before or      *)
(* after a scalar.                                                         *)
(***************************************************************************)
DecodeFields ==
    {<<>>, <<QUOTE, QUOTE>>, <<ONE>>, <<SMALLS>>, <<BIGS>>, <<BIGS, SMALLS>>,
     <<QUOTE, BIGS, QUOTE>>, <<SMALLS, SMALLS>>}

RECURSIVE Joined(_)
Joined(n) ==
    IF n = 1
    THEN DecodeFields
    ELSE {r \o <<COMMA>> \o f : r \in Joined(n - 1), f \in DecodeFields}

DecodeInputs == UNION {Joined(n) : n \in 1..MaxFields}

TagEnum == Enum(<< <<BIGS>>, <<BIGS, SMALLS>> >>, <<Tuple(<<>>), Tuple(<<Usize>>)>>)

Pair == Tuple(<<StringT, StringT>>)

Elements ==
    {Usize, StringT, Char, TagEnum, Pair, Vec(StringT), Vec(Usize),
     Option(Usize), Option(StringT), Option(Char), Option(TagEnum), Option(Pair)}

Shapes ==
    Elements
    \cup {Tuple(<<e>>) : e \in Elements}
    \cup {Tuple(<<e, t>>) : e \in Elements, t \in {StringT, Usize}}
    \cup {Tuple(<<StringT, e>>) : e \in Elements}
    \cup {Tuple(<<StringT, StringT, e>>) : e \in {Usize, Vec(Usize)}}

InitDecode ==
    /\ input \in DecodeInputs
    /\ from_string(input)
    /\ Fresh

NextDecode ==
    \/ CsvNext
    \/ \E shape \in Shapes : Decode(shape)

SpecDecode == InitDecode /\ [][NextDecode]_vars

(***************************************************************************)
(* Any delimiter byte: Csv::delimiter takes a u8, CR among them, and the   *)
(* input comes in any chunking.                                            *)
(***************************************************************************)
AnyDelimiters == {COMMA, ZED, CR}

InitDelims ==
    /\ input \in Inputs(MaxRowLen)
    /\ \E r \in Splits(input) : from_reader(r)
    /\ Fresh

NextDelims ==
    \/ \E d \in AnyDelimiters : Delimiter(d)
    \/ CsvNext

SpecDelims == InitDelims /\ [][NextDelims]_vars

(***************************************************************************)
(* A byte source that is interrupted: the input cut into chunks, with up   *)
(* to MaxIntr interrupted fill_bufs anywhere among them.                   *)
(***************************************************************************)
RECURSIVE InterruptedBy(_, _)
InterruptedBy(r, n) ==
    IF n = 0 THEN {r} ELSE UNION {Interrupted(x) : x \in InterruptedBy(r, n - 1)}

InitIntr ==
    /\ input \in IoInputs
    /\ \E r \in Splits(input) : \E ri \in InterruptedBy(r, MaxIntr) : from_reader(ri)
    /\ Fresh

NextIntr ==
    \/ \E b \in BOOLEAN : HasHeader(b)
    \/ CsvNext

SpecIntr == InitIntr /\ [][NextIntr]_vars

(***************************************************************************)
(* A caller that keeps calling Csv::next on a source of non-empty chunks   *)
(* that does not fail.  CanCall is the state predicate ENABLED             *)
(* <<CsvNext>>_vars (a call always appends to out), and Calling is weak    *)
(* fairness of CsvNext, WF_vars(CsvNext), with that predicate written out: *)
(* the call is not left possible forever without being made.               *)
(***************************************************************************)
InitLive ==
    /\ input \in Inputs(MaxLiveLen)
    /\ \E r \in Splits(input) : from_reader(r)
    /\ Fresh

CanCall == ~panicked /\ ~Drained

Calling == []<>(~CanCall) \/ []<><<CsvNext>>_vars

SpecLive == InitLive /\ [][NextChunked]_vars /\ Calling

(***************************************************************************)
(* What the claims are stated against: the text of the input, read         *)
(* without the scanner.                                                    *)
(***************************************************************************)
Has(s, b) == \E k \in 1..Len(s) : s[k] = b

First(s, b) == CHOOSE k \in 1..Len(s) : s[k] = b /\ \A j \in 1..(k - 1) : s[j] # b

\* The pieces of s between the occurrences of the byte sep.
RECURSIVE Split(_, _)
Split(s, sep) ==
    IF ~Has(s, sep)
    THEN <<s>>
    ELSE <<SubSeq(s, 1, First(s, sep) - 1)>>
         \o Split(SubSeq(s, First(s, sep) + 1, Len(s)), sep)

\* s less one CR at its end.
pop_row_cr(s) ==
    IF s # <<>> /\ s[Len(s)] = CR THEN SubSeq(s, 1, Len(s) - 1) ELSE s

\* The chunks of a reader, end to end.
RECURSIVE Flat(_)
Flat(r) == IF r = <<>> THEN <<>> ELSE Head(r) \o Flat(Tail(r))

\* The rows of an input in which every row ends with LF.
LfTerminated(s) == s = <<>> \/ s[Len(s)] = LF
LfRows(s) == SubSeq(Split(s, LF), 1, Len(Split(s, LF)) - 1)

\* The fields a caller reads from an item: bytes_columns() collected.
FieldsOf(item) == bytes_columns(item).fields
ReadsAs(item, fields) ==
    /\ item.kind = "row"
    /\ ~bytes_columns(item).panic
    /\ FieldsOf(item) = fields

(***************************************************************************)
(* C1.  An input of N rows of K >= 1 unquoted fields (no quote, CR or LF   *)
(* in a field, no delimiter in a field), the fields separated by the       *)
(* configured delimiter and every row ended by LF: the calls of Csv::next  *)
(* return N Ok rows and then None; the k-th row has K fields, equal to the *)
(* fields of the k-th row of the input, in their order.                    *)
(***************************************************************************)
C1_Applies ==
    /\ headers = <<>>
    /\ ~Has(input, QUOTE)
    /\ ~Has(input, CR)
    /\ LfTerminated(input)
    /\ \A a, b \in 1..Len(LfRows(input)) :
          Len(Split(LfRows(input)[a], delimiter)) = Len(Split(LfRows(input)[b], delimiter))

C1_UnquotedRows ==
    C1_Applies =>
        \A k \in 1..Len(out) :
            IF k <= Len(LfRows(input))
            THEN /\ ReadsAs(out[k], Split(LfRows(input)[k], delimiter))
                 /\ Len(out[k].cols) = Len(Split(LfRows(input)[1], delimiter))
            ELSE out[k] = ItemNone

\* Two rows of two fields, not all empty, under the delimiter z, read to the
\* None that follows them.
C1_Witness ==
    /\ C1_Applies
    /\ delimiter = ZED
    /\ Len(LfRows(input)) = 2
    /\ Len(out) = 3
    /\ Len(out[1].cols) = 2
    /\ FieldsOf(out[1]) # FieldsOf(out[2])
    /\ out[3] = ItemNone

(***************************************************************************)
(* C2.  However the input is cut into non-empty refill chunks, the items   *)
(* returned by the calls of Csv::next (the row's bytes and field-end       *)
(* offsets, or the error) are those returned when the whole input is       *)
(* delivered as one chunk.                                                 *)
(***************************************************************************)
\* The items of the first n calls of Csv::next from the state self.
RECURSIVE Items(_, _)
Items(self, n) ==
    IF n = 0
    THEN <<>>
    ELSE <<next(self).item>> \o Items(next(self).self, n - 1)

\* The state of the first call, with the input in one chunk.
InOneChunk(self) ==
    [self EXCEPT !.reader = IF input = <<>> THEN <<>> ELSE <<input>>]

C2_ChunkingInvisible ==
    out # <<>> => out = Items(InOneChunk(calls[1]), Len(out))

\* The same for the inputs that scan without an error in one chunk: there a
\* chunk boundary can only fall inside or beside well-formed fields.
C2_WellFormedChunkingInvisible ==
    (/\ out # <<>>
     /\ \A k \in 1..Len(out) : Items(InOneChunk(calls[1]), Len(out))[k].kind # "err")
        => out = Items(InOneChunk(calls[1]), Len(out))

(***************************************************************************)
(* A row with one quoted field, read from the text R that a call of        *)
(* Csv::next starts on, d the delimiter: the opening quote is the byte i   *)
(* and the closing quote the byte j of R (counted from 1).  Before the     *)
(* opening quote come unquoted fields, each followed by a delimiter; the   *)
(* content is made of bytes other than the quote and of doubled quotes;    *)
(* after the closing quote come the end of the row (LF, CR LF, the end of  *)
(* the input, or CR and the end of the input) or a delimiter and unquoted  *)
(* fields up to the end of the row.                                        *)
(***************************************************************************)
Unquoted(s) == ~Has(s, QUOTE) /\ ~Has(s, CR) /\ ~Has(s, LF)

\* s is made of bytes other than the quote and of doubled quotes.
RECURSIVE Escaped(_)
Escaped(s) ==
    IF s = <<>> THEN TRUE
    ELSE IF s[1] # QUOTE THEN Escaped(Tail(s))
    ELSE Len(s) >= 2 /\ s[2] = QUOTE /\ Escaped(SubSeq(s, 3, Len(s)))

\* The text an escaped content stands for: one quote for each doubled quote.
RECURSIVE Unescape(_)
Unescape(s) ==
    IF s = <<>> THEN <<>>
    ELSE IF s[1] # QUOTE THEN <<s[1]>> \o Unescape(Tail(s))
    ELSE <<QUOTE>> \o Unescape(SubSeq(s, 3, Len(s)))

\* The number of doubled quotes of an escaped content.
RECURSIVE Doubled(_)
Doubled(s) ==
    IF s = <<>> THEN 0
    ELSE IF s[1] # QUOTE THEN Doubled(Tail(s))
    ELSE 1 + Doubled(SubSeq(s, 3, Len(s)))

\* The first row of the text s without its terminator: the bytes before the
\* first LF, or all of them, less one CR at the end.
RowText(s) ==
    pop_row_cr(IF Has(s, LF) THEN SubSeq(s, 1, First(s, LF) - 1) ELSE s)

\* What follows the first row of s.
RowRest(s) ==
    IF Has(s, LF) THEN SubSeq(s, First(s, LF) + 1, Len(s)) ELSE <<>>

FieldsBefore(R, d, i) == IF i = 1 THEN <<>> ELSE Split(SubSeq(R, 1, i - 2), d)
ContentOf(R, i, j) == SubSeq(R, i + 1, j - 1)
TailOf(R, j) == RowText(SubSeq(R, j + 1, Len(R)))
FieldsAfter(R, d, j) == IF TailOf(R, j) = <<>> THEN <<>> ELSE Split(Tail(TailOf(R, j)), d)

QuotedRow(R, d, i, j) ==
    /\ i < j
    /\ R[i] = QUOTE
    /\ R[j] = QUOTE
    /\ i = 1 \/ (R[i - 1] = d /\ Unquoted(SubSeq(R, 1, i - 2)))
    /\ Escaped(ContentOf(R, i, j))
    /\ Unquoted(TailOf(R, j))
    /\ TailOf(R, j) = <<>> \/ TailOf(R, j)[1] = d

QuotedRowFields(R, d, i, j) ==
    FieldsBefore(R, d, i) \o <<Unescape(ContentOf(R, i, j))>> \o FieldsAfter(R, d, j)

\* The k-th call of Csv::next scans a row: the reader had not exited.  The
\* text it starts on, and whether a row of c fields passes the field-count
\* check of that call.
Scans(k) == ~calls[k].exit
TextAt(k) == Flat(calls[k].reader)
CountFits(k, c) ==
    calls[k].len = <<>> \/ calls[k].flexible \/ calls[k].len[1] = c

\* The reader after the k-th call.
ReaderAfter(k) == IF k < Len(calls) THEN calls[k + 1].reader ELSE reader

(***************************************************************************)
(* C3.  A row with a properly closed quoted field whose content has no     *)
(* quote: the delimiters, CR and LF of the content end neither the field   *)
(* nor the row.  Csv::next returns the whole row as one row, the quoted    *)
(* field reads as exactly its content, the fields before and after it as   *)
(* their input text, and the reader is left after the row.                 *)
(***************************************************************************)
C3_Case(k, i, j) ==
    /\ Scans(k)
    /\ QuotedRow(TextAt(k), calls[k].delimiter, i, j)
    /\ ~Has(ContentOf(TextAt(k), i, j), QUOTE)
    /\ CountFits(k, Len(QuotedRowFields(TextAt(k), calls[k].delimiter, i, j)))

C3_QuotedContent ==
    \A k \in 1..Len(out) : \A i, j \in 1..Len(TextAt(k)) :
        C3_Case(k, i, j) =>
            /\ ReadsAs(out[k], QuotedRowFields(TextAt(k), calls[k].delimiter, i, j))
            /\ Flat(ReaderAfter(k)) = RowRest(SubSeq(TextAt(k), j + 1, Len(TextAt(k))))

\* A quoted field holding a delimiter and a LF, between two other fields.
C3_Witness ==
    \E k \in 1..Len(out) : \E i, j \in 1..Len(TextAt(k)) :
        /\ C3_Case(k, i, j)
        /\ Has(ContentOf(TextAt(k), i, j), calls[k].delimiter)
        /\ Has(ContentOf(TextAt(k), i, j), LF)
        /\ i > 1
        /\ TailOf(TextAt(k), j) # <<>>
        /\ out[k].kind = "row"

(***************************************************************************)
(* C4.  A row with a properly closed quoted field whose content holds      *)
(* doubled quotes: the field reads as the content with one quote byte for  *)
(* each doubled quote, whatever their number, and the fields that follow   *)
(* it in the row read as their input text.                                 *)
(***************************************************************************)
C4_Case(k, i, j) ==
    /\ Scans(k)
    /\ QuotedRow(TextAt(k), calls[k].delimiter, i, j)
    /\ Doubled(ContentOf(TextAt(k), i, j)) >= 1
    /\ CountFits(k, Len(QuotedRowFields(TextAt(k), calls[k].delimiter, i, j)))

C4_DoubledQuotes ==
    \A k \in 1..Len(out) : \A i, j \in 1..Len(TextAt(k)) :
        C4_Case(k, i, j) =>
            ReadsAs(out[k], QuotedRowFields(TextAt(k), calls[k].delimiter, i, j))

\* Two doubled quotes and a byte between them, and a field after.
C4_Witness ==
    \E k \in 1..Len(out) : \E i, j \in 1..Len(TextAt(k)) :
        /\ C4_Case(k, i, j)
        /\ Doubled(ContentOf(TextAt(k), i, j)) = 2
        /\ Len(ContentOf(TextAt(k), i, j)) = 5
        /\ FieldsAfter(TextAt(k), calls[k].delimiter, j) = <<<<ZED>>>>
        /\ out[k].kind = "row"

(***************************************************************************)
(* C5.  An unquoted row reads the same however it is ended: by LF, by      *)
(* CR LF, by the end of the input or, for the last row, by CR and the end  *)
(* of the input.  The fields are those of the row's content, the CR and LF *)
(* of the terminator are in no field, the reader is left after the         *)
(* terminator; and when nothing is left (after a final LF as well) the     *)
(* call returns None, not one more row.                                    *)
(***************************************************************************)
C5_Case(k) ==
    /\ Scans(k)
    /\ TextAt(k) # <<>>
    /\ Unquoted(RowText(TextAt(k)))
    /\ CountFits(k, Len(Split(RowText(TextAt(k)), calls[k].delimiter)))

C5_LineEndings ==
    \A k \in 1..Len(out) :
        /\ (Scans(k) /\ TextAt(k) = <<>>) => out[k] = ItemNone
        /\ C5_Case(k) =>
              /\ ReadsAs(out[k], Split(RowText(TextAt(k)), calls[k].delimiter))
              /\ Flat(ReaderAfter(k)) = RowRest(TextAt(k))

\* A row ended by CR LF, the same row ended by CR and the end of the input,
\* and the None after them.
C5_Witness ==
    /\ Len(out) = 3
    /\ C5_Case(1)
    /\ C5_Case(2)
    /\ TextAt(1) = RowText(TextAt(1)) \o <<CR, LF>> \o TextAt(2)
    /\ TextAt(2) = RowText(TextAt(2)) \o <<CR>>
    /\ RowText(TextAt(1)) = RowText(TextAt(2))
    /\ Len(out[1].cols) = 2
    /\ out[1] = out[2]
    /\ out[3] = ItemNone

(***************************************************************************)
(* C6.  The first row scanned fixes the expected field count n, for good.  *)
(* A later row of c fields is refused with ColumnMismatch(n, c) exactly    *)
(* when c # n and flexible mode is off; otherwise it is returned Ok, so    *)
(* with flexible mode on every row is returned whatever its count.  The    *)
(* count of an unquoted row is that of its text; for any row, a            *)
(* ColumnMismatch is returned only in strict mode, with the expected count *)
(* and a different one, and a row is returned in strict mode only with the *)
(* expected count.                                                         *)
(***************************************************************************)
LenAfter(k) == IF k < Len(calls) THEN calls[k + 1].len ELSE len

C6_Row(k) ==
    /\ Scans(k)
    /\ TextAt(k) # <<>>
    /\ Unquoted(RowText(TextAt(k)))

C6_Count(k) == Len(Split(RowText(TextAt(k)), calls[k].delimiter))

C6_Refused(k) ==
    /\ calls[k].len # <<>>
    /\ calls[k].len[1] # C6_Count(k)
    /\ ~calls[k].flexible

C6_FieldCountPolicy ==
    \A k \in 1..Len(out) :
        /\ calls[k].len # <<>> => LenAfter(k) = calls[k].len
        /\ C6_Row(k) =>
              IF C6_Refused(k)
              THEN out[k] = ItemErr("ColumnMismatch", calls[k].len[1], C6_Count(k))
              ELSE /\ out[k].kind = "row"
                   /\ Len(out[k].cols) = C6_Count(k)
                   /\ LenAfter(k) = IF calls[k].len = <<>>
                                    THEN <<C6_Count(k)>> ELSE calls[k].len
        /\ (out[k].kind = "err" /\ out[k].err = "ColumnMismatch") =>
              /\ ~calls[k].flexible
              /\ calls[k].len = <<out[k].n>>
              /\ out[k].c # out[k].n
        /\ out[k].kind = "row" =>
              \/ calls[k].flexible
              \/ calls[k].len = <<>>
              \/ calls[k].len = <<Len(out[k].cols)>>

\* Strict mode: a row of one field, then a row of two refused with
\* ColumnMismatch(1, 2).
C6_Witness ==
    /\ Len(out) >= 2
    /\ ~flexible
    /\ C6_Row(1)
    /\ C6_Row(2)
    /\ calls[1].len = <<>>
    /\ out[1].kind = "row"
    /\ out[2] = ItemErr("ColumnMismatch", 1, 2)

\* Flexible mode: rows of one and of two fields, both returned.
C6_FlexibleReached ==
    /\ Len(out) >= 2
    /\ flexible
    /\ C6_Row(2)
    /\ calls[2].len = <<1>>
    /\ out[2].kind = "row"
    /\ Len(out[2].cols) = 2

(***************************************************************************)
(* Where a byte stands in the text of a row, read without the scanner:     *)
(* "start" at the first byte of a field, "plain" further in an unquoted    *)
(* field, "quoted" inside a quoted section, "closing" just after a quote   *)
(* met inside a quoted section, "end" after the LF of the row.  The first  *)
(* anomaly is kept: "unexpected" for a quote met in "plain", "unescaped"   *)
(* for a quote of a quoted section followed in its chunk by a byte that is *)
(* not a quote, the delimiter, CR or LF, "stray" when that byte is the     *)
(* first of the next chunk.                                                *)
(***************************************************************************)
Outside(b, d) ==
    IF b = d THEN "start" ELSE IF b = LF THEN "end" ELSE "plain"

Step(m, b, d, first) ==
    IF m = "start"
    THEN IF b = QUOTE THEN "quoted" ELSE Outside(b, d)
    ELSE IF m = "plain"
    THEN IF b = QUOTE THEN "unexpected" ELSE Outside(b, d)
    ELSE IF m = "quoted"
    THEN IF b = QUOTE THEN "closing" ELSE "quoted"
    ELSE IF m = "closing"
    THEN IF b = QUOTE THEN "quoted"
         ELSE IF b = d \/ b = LF \/ b = CR THEN Outside(b, d)
         ELSE IF first THEN "stray" ELSE "unescaped"
    ELSE m

RECURSIVE ChunkMode(_, _, _, _)
ChunkMode(m, c, d, i) ==
    IF i > Len(c) THEN m ELSE ChunkMode(Step(m, c[i], d, i = 1), c, d, i + 1)

RECURSIVE Mode(_, _, _)
Mode(m, r, d) ==
    IF r = <<>> THEN m ELSE Mode(ChunkMode(m, Head(r), d, 1), Tail(r), d)

ModeAt(k) == Mode("start", calls[k].reader, calls[k].delimiter)
OneChunk(k) == Len(calls[k].reader) <= 1
Fails(k, e) == out[k].kind = "err" /\ out[k].err = e

(***************************************************************************)
(* C7.  For a row delivered in one chunk, Csv::next returns                *)
(* Err(UnexpectedQuote) exactly when the first anomaly of the row is a     *)
(* quote outside a quoted section that is not the first byte of a field:   *)
(* such a quote is refused, and a quote at the start of the row or just    *)
(* after a delimiter never is.                                             *)
(***************************************************************************)
C7_UnexpectedQuote ==
    \A k \in 1..Len(out) :
        (Scans(k) /\ OneChunk(k)) =>
            (Fails(k, "UnexpectedQuote") <=> ModeAt(k) = "unexpected")

\* A second row refused for a quote inside its second field.
C7_Witness ==
    /\ Len(out) >= 2
    /\ Scans(2)
    /\ OneChunk(2)
    /\ ModeAt(2) = "unexpected"
    /\ Fails(2, "UnexpectedQuote")
    /\ out[1].kind = "row"
    /\ Has(TextAt(2), calls[2].delimiter)
    /\ TextAt(2)[1] # QUOTE

\* A row returned whose second field opens with a quote, just after the
\* delimiter.
C7_OpeningReached ==
    /\ Len(out) >= 1
    /\ OneChunk(1)
    /\ Len(TextAt(1)) >= 3
    /\ TextAt(1)[1] = ZED
    /\ TextAt(1)[2] = calls[1].delimiter
    /\ TextAt(1)[3] = QUOTE
    /\ out[1].kind = "row"

(***************************************************************************)
(* C8.  However the input is cut into chunks: a quote of a quoted section  *)
(* followed in the same chunk by a byte that is not a quote, the           *)
(* delimiter, CR or LF makes Csv::next return Err(UnescapedQuote); and a   *)
(* row in which every quote of a quoted section is followed by a quote,    *)
(* the delimiter, CR, LF or the end of the data is never refused with      *)
(* UnescapedQuote.                                                         *)
(***************************************************************************)
C8_UnescapedQuote ==
    \A k \in 1..Len(out) :
        Scans(k) =>
            /\ ModeAt(k) = "unescaped" => Fails(k, "UnescapedQuote")
            /\ ModeAt(k) \in {"start", "plain", "quoted", "closing", "end"}
                  => ~Fails(k, "UnescapedQuote")

\* A row in two chunks, refused for a quote of the quoted section followed by
\* a plain byte in the second chunk.
C8_Witness ==
    \E k \in 1..Len(out) :
        /\ Scans(k)
        /\ Len(calls[k].reader) >= 2
        /\ ModeAt(k) = "unescaped"
        /\ Mode("start", <<Head(calls[k].reader)>>, calls[k].delimiter) = "quoted"
        /\ Fails(k, "UnescapedQuote")

(***************************************************************************)
(* C9.  Header mode on an input without quotes.  The first row of the      *)
(* input is set aside: its fields, split on the delimiter in force when    *)
(* header mode was enabled, are the header names, headers() returns them,  *)
(* and the k-th call of Csv::next returns row k + 1 of the input, so that  *)
(* an input of N rows yields N - 1 data rows and then None (the rows       *)
(* having the field count of the header row, or flexible mode being on).   *)
(* A headers() call made before header mode was enabled returned the empty *)
(* list.                                                                   *)
(* On the empty input the header names are the empty list, every call of   *)
(* Csv::next returns None, and nothing fails.                              *)
(***************************************************************************)
RECURSIVE RowsOf(_)
RowsOf(s) == IF s = <<>> THEN <<>> ELSE <<RowText(s)>> \o RowsOf(RowRest(s))

C9_Applies == has_header /\ ~Has(input, QUOTE)

C9_Fits ==
    \/ flexible
    \/ \A j \in 2..Len(RowsOf(input)) :
          Len(Split(RowsOf(input)[j], delimiter)) = Len(headers[1])

C9_DataRows ==
    \A k \in 1..Len(out) :
        IF k < Len(RowsOf(input))
        THEN ReadsAs(out[k], Split(RowsOf(input)[k + 1], delimiter))
        ELSE out[k] = ItemNone

C9_HeaderRow ==
    C9_Applies =>
        /\ ~panicked
        /\ IF input = <<>>
           THEN /\ headers = <<>>
                /\ hret \in {<<>>, <<<<>>>>}
                /\ \A k \in 1..Len(out) : out[k] = ItemNone
           ELSE /\ headers # <<>>
                /\ \E d \in Delimiters : headers[1] = Split(RowsOf(input)[1], d)
                /\ hret \in {<<>>, <<<<>>>>, <<headers[1]>>}
                /\ C9_Fits => C9_DataRows

\* Three rows under header mode: headers() has returned the two names of the
\* first, two data rows and the None after them have been returned.
C9_Witness ==
    /\ C9_Applies
    /\ Len(RowsOf(input)) = 3
    /\ C9_Fits
    /\ Len(headers[1]) = 2
    /\ hret = <<headers[1]>>
    /\ Len(out) = 3
    /\ out[2].kind = "row"
    /\ out[3] = ItemNone

\* The empty input under header mode, headers() called, Csv::next called.
C9_EmptyReached ==
    /\ C9_Applies
    /\ input = <<>>
    /\ hret = <<<<>>>>
    /\ Len(out) >= 1

(***************************************************************************)
(* C10.  A call of headers() made while header mode is disabled and no     *)
(* header row has been set aside, as it is by default, returns the empty   *)
(* list and changes neither the reader nor any other field of Csv, nor     *)
(* what the caller has been returned; and in that configuration the calls  *)
(* of Csv::next return every row of an input without quotes, from the      *)
(* first, and then None (the rows having the field count of the first, or  *)
(* flexible mode being on).                                                *)
(***************************************************************************)
C10_Fits ==
    \/ flexible
    \/ \A j \in 1..Len(RowsOf(input)) :
          Len(Split(RowsOf(input)[j], delimiter)) = Len(Split(RowsOf(input)[1], delimiter))

C10_AllRows ==
    (~Has(input, QUOTE) /\ C10_Fits) =>
        \A k \in 1..Len(out) :
            IF k <= Len(RowsOf(input))
            THEN ReadsAs(out[k], Split(RowsOf(input)[k], delimiter))
            ELSE out[k] = ItemNone

C10_Inert ==
    /\ hret' = <<<<>>>>
    /\ UNCHANGED <<csv, panicked, out, calls>>

C11_Case(k) ==
    /\ Scans(k)
    /\ TextAt(k) # <<>>
    /\ Unquoted(RowText(TextAt(k)))
    /\ CountFits(k, Len(Split(RowText(TextAt(k)), calls[k].delimiter)))

C11_Scanned ==
    \A k \in 1..Len(out) :
        C11_Case(k) =>
            /\ ReadsAs(out[k], Split(RowText(TextAt(k)), calls[k].delimiter))
            /\ Flat(ReaderAfter(k)) = RowRest(TextAt(k))
            /\ row_columns(out[k]).res = IF Has(RowText(TextAt(k)), BAD) THEN "Io" ELSE "Ok"
            /\ row_decode(out[k], Vec(StringT)).res
                  = IF Has(RowText(TextAt(k)), BAD) THEN "Io" ELSE "Ok"

C11_Asked ==
    dec.op # "" =>
        /\ dec.k \in 1..Len(out)
        /\ out[dec.k].kind = "row"
        /\ dec.r = IF dec.op = "columns"
                   THEN row_columns(out[dec.k])
                   ELSE row_decode(out[dec.k], dec.shape)

RECURSIVE Data(_)
Data(r) ==
    IF r = <<>> \/ Head(r) = EIO THEN <<>>
    ELSE IF Head(r) = EINTR THEN Data(Tail(r))
    ELSE <<Head(r)>> \o Data(Tail(r))

\* The scan of the pending results r meets no quote error before the failure
\* or the end of the row.
QuoteFree(r) ==
    Mode("start", Data(r), COMMA) \notin {"unexpected", "unescaped", "stray"}

\* fill_buf fails before the row has ended: a line feed inside a quoted field
\* does not end the row.
IoStrikes(r) ==
    /\ \E i \in 1..Len(r) : r[i] = EIO
    /\ Mode("start", Data(r), COMMA) # "end"

C12_IoFatal ==
    \A k \in 1..Len(out) :
        /\ (Scans(k) /\ QuoteFree(calls[k].reader)) =>
              (Fails(k, "Io") <=> IoStrikes(calls[k].reader))
        /\ Fails(k, "Io") =>
              \A j \in (k + 1)..Len(out) :
                  /\ out[j] = ItemNone
                  /\ calls[j].exit
                  /\ ReaderAfter(j) = calls[j].reader

\* A row, then a call that was given a chunk of the second row or an
\* interrupted fill_buf before fill_buf failed, then a call that returned None
\* with data still pending.
C12_Witness ==
    /\ Len(out) >= 3
    /\ out[1].kind = "row"
    /\ Fails(2, "Io")
    /\ Head(calls[2].reader) # EIO
    /\ out[3] = ItemNone
    /\ reader # <<>>

(***************************************************************************)
(* C13.  Every Err that Csv::next returns ends the iteration: after        *)
(* UnescapedQuote, UnexpectedQuote or ColumnMismatch, as after Io, the     *)
(* exit flag is set, every later call returns None and the source is not   *)
(* read again, whatever rows are still pending in it.                      *)
(***************************************************************************)
ExitAfter(k) == IF k < Len(calls) THEN calls[k + 1].exit ELSE exit

RowScoped == {"UnescapedQuote", "UnexpectedQuote", "ColumnMismatch"}

C13_MismatchReached ==
    /\ Len(out) >= 3
    /\ Fails(2, "ColumnMismatch")
    /\ out[3] = ItemNone

Anomalies == {"unexpected", "unescaped"}

FirstRowFails ==
    /\ input # <<>>
    /\ \A d \in Delimiters : Mode("start", <<input>>, d) \in Anomalies

Ended == ~panicked /\ out # <<>> /\ out[Len(out)] = ItemNone

C14_FailuresReturned ==
    /\ \A k \in 1..Len(out) :
          (Scans(k) /\ OneChunk(k) /\ ModeAt(k) \in Anomalies) => out[k].kind = "err"
    /\ (Ended /\ FirstRowFails) => \E k \in 1..Len(out) : out[k].kind = "err"

(***************************************************************************)
(* The decode the caller asked last, and the fields of the row it was      *)
(* asked of.                                                               *)
(***************************************************************************)
Decoding(shape) == dec.op = "decode" /\ dec.shape = shape
DecFields == FieldsOf(out[dec.k])

\* The view of the row after n calls of next().
RECURSIVE AfterNext(_, _)
AfterNext(v, n) == IF n = 0 THEN v ELSE AfterNext(next_column(v).v, n - 1)
DecView(n) == AfterNext(Columns_new(out[dec.k].line, out[dec.k].cols), n)

(***************************************************************************)
(* C15.  An optional decoded when the next field is empty (raw or quoted)  *)
(* yields absent and leaves the view as one call of next() does; the       *)
(* string decoded after it is the text of the following field.             *)
(***************************************************************************)
C15_EmptyOptional ==
    \A t \in {Usize, StringT, Char, TagEnum} :
        /\ (Decoding(Tuple(<<Option(t)>>)) /\ DecFields[1] = <<>>) =>
              /\ dec.r.res = "Ok"
              /\ dec.r.val = << <<>> >>
              /\ dec.r.v = DecView(1)
        /\ (Decoding(Tuple(<<Option(t), StringT>>)) /\ Len(DecFields) >= 2
              /\ DecFields[1] = <<>>) =>
              /\ dec.r.res = "Ok"
              /\ dec.r.val = << <<>>, DecFields[2] >>

(***************************************************************************)
(* C16.  An optional whose next field is not empty and does not decode as  *)
(* the wrapped kind (text that is no number for usize, text of another     *)
(* length than one for char, text that is no variant name for the enum)    *)
(* yields absent, and decode returns Ok; a field that does decode yields   *)
(* its value.                                                              *)
(***************************************************************************)
TagNames == {<<BIGS>>, <<BIGS, SMALLS>>}

Unfit(t, f) ==
    IF t = Usize THEN \E i \in 1..Len(f) : f[i] \notin 48..57
    ELSE IF t = Char THEN Len(f) # 1
    ELSE f \notin TagNames

C16_Case(t) ==
    /\ Decoding(Tuple(<<Option(t)>>))
    /\ DecFields[1] # <<>>
    /\ Unfit(t, DecFields[1])

C16_OptionalLenient ==
    /\ \A t \in {Usize, Char, TagEnum} :
          /\ C16_Case(t) => (dec.r.res = "Ok" /\ dec.r.val = << <<>> >>)
          /\ (Decoding(Option(t)) /\ DecFields[1] # <<>> /\ Unfit(t, DecFields[1])) =>
                (dec.r.res = "Ok" /\ dec.r.val = <<>>)
    /\ (Decoding(Tuple(<<Option(Usize)>>)) /\ DecFields[1] = <<ONE>>) =>
          (dec.r.res = "Ok" /\ dec.r.val = << <<1>> >>)
    /\ (Decoding(Tuple(<<Option(Char)>>)) /\ DecFields[1] = <<SMALLS>>) =>
          (dec.r.res = "Ok" /\ dec.r.val = << <<SMALLS>> >>)

\* A row of three fields whose first is the letter s, decoded into
\* (Option<usize>,).
C16_Witness ==
    /\ C16_Case(Usize)
    /\ DecFields[1] = <<SMALLS>>
    /\ Len(DecFields) = 3
    /\ dec.r.res = "Ok"
    /\ dec.r.val = << <<>> >>

\* (Option<char>,) on the two letters ss, (Option<enum>,) on the letter s.
C16_CharReached == C16_Case(Char) /\ DecFields[1] = <<SMALLS, SMALLS>> /\ dec.r.res = "Ok"
C16_EnumReached == C16_Case(TagEnum) /\ DecFields[1] = <<SMALLS>> /\ dec.r.res = "Ok"

(***************************************************************************)
(* C17.  A k-th field that is not a number, decoded as the usize at place  *)
(* k of a tuple: decode returns a Decode error whose message holds k, the  *)
(* one-based position of the field in the row, and the text of the field.  *)
(***************************************************************************)
Place(k) ==
    IF k = 1 THEN Tuple(<<Usize>>)
    ELSE IF k = 2 THEN Tuple(<<StringT, Usize>>)
    ELSE Tuple(<<StringT, StringT, Usize>>)

C17_Case(k) ==
    /\ Decoding(Place(k))
    /\ Len(DecFields) >= k
    /\ Unfit(Usize, DecFields[k]) \/ DecFields[k] = <<>>

C17_PositionNamed ==
    \A k \in 1..3 :
        C17_Case(k) =>
            /\ dec.r.res = "Decode"
            /\ dec.r.msg.col = DecFields[k]
            /\ dec.r.msg.n = k

(***************************************************************************)
(* C18.  A shape decoded when no field is left in the view returns         *)
(* Error::EOL: usize, String, char, an optional, the enum; and so does a   *)
(* pair whose second element is reached after the last field of the row,   *)
(* wrapped in an optional or not.                                          *)
(***************************************************************************)
C18_EndOfRow ==
    /\ \A e \in {Usize, StringT, Char, Option(Usize), Option(StringT), TagEnum} :
          (Decoding(Tuple(<<StringT, e>>)) /\ Len(DecFields) = 1) => dec.r.res = "EOL"
    /\ \A e \in {Pair, Option(Pair)} :
          (Decoding(Tuple(<<StringT, e>>)) /\ Len(DecFields) = 2 /\ DecFields[2] # <<>>)
              => dec.r.res = "EOL"

\* The same, less the two cases the code answers otherwise.
C18_EndOfRowScalars ==
    /\ \A e \in {Usize, StringT, Char, Option(Usize), Option(StringT)} :
          (Decoding(Tuple(<<StringT, e>>)) /\ Len(DecFields) = 1) => dec.r.res = "EOL"
    /\ (Decoding(Tuple(<<StringT, Pair>>)) /\ Len(DecFields) = 2) => dec.r.res = "EOL"

(***************************************************************************)
(* C19.  The enum with the variants S and Ss(usize), decoded at the head   *)
(* of a tuple before a String.  When the text of the first field (without  *)
(* its quotes) is S, the variant S is selected, that field alone is        *)
(* consumed and the String is the second field; when it is Ss, the variant *)
(* Ss is selected with its argument decoded from the second field, and the *)
(* String is the third; any other text, s and ss included, is a Decode     *)
(* error that lists the two names and leaves the view where it was.        *)
(***************************************************************************)
C19_Shape == Tuple(<<TagEnum, StringT>>)

C19_Expected(f) ==
    IF f[1] = <<BIGS>>
    THEN IF Len(f) >= 2
         THEN Done(<<[variant |-> 1, args |-> <<>>], f[2]>>, DecView(2))
         ELSE EOL(DecView(1))
    ELSE IF f[1] = <<BIGS, SMALLS>>
    THEN IF Len(f) = 1 THEN EOL(DecView(1))
         ELSE IF f[2] # <<ONE>>
         THEN Failed("Decode", failed_converting(Len(f) - 2, f[2]), DecView(2))
         ELSE IF Len(f) = 2 THEN EOL(DecView(2))
         ELSE Done(<<[variant |-> 2, args |-> <<1>>], f[3]>>, DecView(3))
    ELSE Failed("Decode", could_not_load(<< <<BIGS>>, <<BIGS, SMALLS>> >>), DecView(0))

C19_EnumTag ==
    /\ Decoding(C19_Shape) => dec.r = C19_Expected(DecFields)
    /\ (Decoding(Tuple(<<StringT, TagEnum>>)) /\ Len(DecFields) >= 2
          /\ DecFields[2] \notin TagNames) =>
          /\ dec.r.res = "Decode"
          /\ dec.r.v = DecView(1)

\* The quoted tag "S" before a field: the variant S and the field.
C19_Witness ==
    /\ Decoding(C19_Shape)
    /\ out[dec.k].line = <<QUOTE, BIGS, QUOTE, COMMA, SMALLS>>
    /\ dec.r.res = "Ok"
    /\ dec.r.val = <<[variant |-> 1, args |-> <<>>], <<SMALLS>>>>

\* The tag Ss with its argument; the tag s, of the wrong case.
C19_ArgumentReached ==
    /\ Decoding(C19_Shape)
    /\ DecFields = << <<BIGS, SMALLS>>, <<ONE>>, <<SMALLS>> >>
    /\ dec.r.res = "Ok"
C19_NoMatchReached ==
    /\ Decoding(C19_Shape)
    /\ DecFields[1] = <<SMALLS>>
    /\ dec.r.res = "Decode"

(***************************************************************************)
(* C20.  A sequence decoded when r fields are left in the view has r       *)
(* elements, the remaining fields in their order, and leaves the view      *)
(* exhausted; with no field left it is the empty sequence.  For a sequence *)
(* of usize, this is so when every remaining field is the number 1.        *)
(***************************************************************************)
Rest(f, n) == SubSeq(f, n + 1, Len(f))
AllOnes(f) == \A i \in 1..Len(f) : f[i] = <<ONE>>
Ones(f) == [i \in 1..Len(f) |-> 1]

C20_SequenceTail ==
    /\ Decoding(Vec(StringT)) => dec.r = Done(DecFields, DecView(Len(DecFields)))
    /\ Decoding(Tuple(<<StringT, Vec(StringT)>>)) =>
          dec.r = Done(<<DecFields[1], Rest(DecFields, 1)>>, DecView(Len(DecFields)))
    /\ (Decoding(Tuple(<<StringT, Vec(Usize)>>)) /\ AllOnes(Rest(DecFields, 1))) =>
          dec.r = Done(<<DecFields[1], Ones(Rest(DecFields, 1))>>, DecView(Len(DecFields)))
    /\ (Decoding(Tuple(<<StringT, StringT, Vec(Usize)>>)) /\ Len(DecFields) >= 2
          /\ AllOnes(Rest(DecFields, 2))) =>
          dec.r = Done(<<DecFields[1], DecFields[2], Ones(Rest(DecFields, 2))>>,
                       DecView(Len(DecFields)))
    /\ dec.op = "decode" => columns_len(DecView(Len(DecFields))) = 0

\* (String, Vec<usize>) on a row of a letter and two numbers.
C20_Witness ==
    /\ Decoding(Tuple(<<StringT, Vec(Usize)>>))
    /\ DecFields = << <<SMALLS>>, <<ONE>>, <<ONE>> >>
    /\ dec.r.res = "Ok"
    /\ dec.r.val = << <<SMALLS>>, <<1, 1>> >>
    /\ columns_len(dec.r.v) = 0

\* (String, Vec<String>) on a row of one field: the empty sequence.
C20_EmptyReached ==
    /\ Decoding(Tuple(<<StringT, Vec(StringT)>>))
    /\ Len(DecFields) = 1
    /\ dec.r.res = "Ok"
    /\ dec.r.val[2] = <<>>

(***************************************************************************)
(* C21.  Row invariant, for every row Csv::next returns, whatever the      *)
(* delimiter and the chunking: the field-end offsets are strictly          *)
(* increasing, the last one is the length of the row's buffer, and the     *)
(* earlier ones are the places in the buffer of the delimiter bytes that   *)
(* lie outside the quoted sections of the row's text, in their order.      *)
(* The places are checked on the rows whose text has no anomaly.           *)
(* OutsideEnds walks the text of a row from the i-th byte of its first     *)
(* chunk: n counts the bytes kept in the buffer (the second quote of a     *)
(* doubled quote is dropped, when it is in the chunk of the first) and     *)
(* offs collects the places of the delimiters met outside quotes.          *)
(***************************************************************************)
RowAnomalies == {"unexpected", "unescaped", "stray"}

RECURSIVE OutsideEnds(_, _, _, _, _, _)
OutsideEnds(m, r, i, d, n, offs) ==
    IF r = <<>> \/ m \in RowAnomalies \cup {"end"}
    THEN [m |-> m, offs |-> offs]
    ELSE IF i > Len(Head(r))
    THEN OutsideEnds(m, Tail(r), 1, d, n, offs)
    ELSE OutsideEnds(Step(m, Head(r)[i], d, i = 1), r, i + 1, d,
                     IF m = "closing" /\ Head(r)[i] = QUOTE /\ i > 1
                       THEN n ELSE n + 1,
                     IF m # "quoted" /\ Head(r)[i] = d
                       THEN Append(offs, n) ELSE offs)

RowEnds(k) == OutsideEnds("start", calls[k].reader, 1, calls[k].delimiter, 0, <<>>)

Increasing(c) == \A i \in 1..(Len(c) - 1) : c[i] < c[i + 1]
Front(c) == SubSeq(c, 1, Len(c) - 1)

C21_Holds(k) ==
    /\ out[k].cols # <<>>
    /\ Increasing(out[k].cols)
    /\ out[k].cols[Len(out[k].cols)] = Len(out[k].line)
    /\ \A i \in 1..(Len(out[k].cols) - 1) :
          /\ out[k].cols[i] < Len(out[k].line)
          /\ out[k].line[out[k].cols[i] + 1] = calls[k].delimiter
    /\ RowEnds(k).m \notin RowAnomalies => Front(out[k].cols) = RowEnds(k).offs

C21_RowInvariant ==
    \A k \in 1..Len(out) : out[k].kind = "row" => C21_Holds(k)

\* The same for the delimiters other than CR.
C21_RowInvariantNoCr ==
    \A k \in 1..Len(out) :
        (out[k].kind = "row" /\ calls[k].delimiter # CR) => C21_Holds(k)

\* A row of two chunks whose quoted field holds a doubled quote, with the
\* delimiter after the quoted field.
C21_NoCrReached ==
    \E k \in 1..Len(out) :
        /\ out[k].kind = "row"
        /\ calls[k].delimiter # CR
        /\ Len(calls[k].reader) >= 2
        /\ Len(out[k].cols) = 2
        /\ out[k].cols[1] >= 3
        /\ Len(out[k].line) < Len(TextAt(k))
        /\ ~Has(TextAt(k), LF)
        /\ TextAt(k)[Len(TextAt(k))] # CR
        /\ RowEnds(k).m \notin RowAnomalies

(***************************************************************************)
(* C22.  An interrupted fill_buf is retried and is invisible: with any     *)
(* number of them anywhere among the chunks, each call of Csv::next        *)
(* returns the item it returns on the same source without them and leaves  *)
(* the same fields and the same data pending, no call returns Err(Io) and  *)
(* the data left is the end of the data there was.                         *)
(***************************************************************************)
IsData(c) == c # EINTR
Uninterrupted(r) == SelectSeq(r, IsData)
Quiet(self) == [self EXCEPT !.reader = Uninterrupted(self.reader)]
SelfAfter(k) == IF k < Len(calls) THEN calls[k + 1] ELSE Self
IsSuffix(t, u) == Len(t) <= Len(u) /\ SubSeq(u, Len(u) - Len(t) + 1, Len(u)) = t

C22_InterruptsInvisible ==
    \A k \in 1..Len(out) :
        /\ out[k] = next(Quiet(calls[k])).item
        /\ Quiet(SelfAfter(k)) = next(Quiet(calls[k])).self
        /\ ~Fails(k, "Io")
        /\ IsSuffix(Flat(Uninterrupted(ReaderAfter(k))),
                    Flat(Uninterrupted(calls[k].reader)))

\* A row of two fields scanned through an interrupted fill_buf before its
\* first chunk and another between its two chunks, with a row after it.
C22_Witness ==
    /\ Len(out) >= 2
    /\ out[1].kind = "row"
    /\ Len(out[1].cols) = 2
    /\ Len(calls[1].reader) = 4
    /\ calls[1].reader[1] = EINTR
    /\ calls[1].reader[3] = EINTR
    /\ ~Has(calls[1].reader[2], LF)
    /\ out[2].kind = "row"

\* Two interrupted fill_bufs in a row, inside a quoted field.
C22_TwiceReached ==
    /\ Len(out) >= 1
    /\ out[1].kind = "row"
    /\ Len(calls[1].reader) = 4
    /\ calls[1].reader[1] = <<QUOTE>>
    /\ calls[1].reader[2] = EINTR
    /\ calls[1].reader[3] = EINTR
    /\ Has(out[1].line, COMMA)

(***************************************************************************)
(* C23.  For every field of every row Csv::next returns, the slice the     *)
(* column view yields is the raw field (the bytes of the buffer between    *)
(* the previous field end and this one) when the raw field does not begin  *)
(* with a quote, and otherwise the raw field without its first and its     *)
(* last byte, which are both quotes.                                       *)
(***************************************************************************)
RawStart(row, i) == IF i = 1 THEN 0 ELSE row.cols[i - 1] + 1
RawField(row, i) == Slice(row.line, RawStart(row, i), row.cols[i])
Quoted(raw) == Len(raw) >= 2 /\ raw[1] = QUOTE /\ raw[Len(raw)] = QUOTE
Viewed(row) == bytes_columns(row)

C23_Field(raw, field) ==
    IF raw # <<>> /\ raw[1] = QUOTE
    THEN Quoted(raw) /\ field = Slice(raw, 1, Len(raw) - 1)
    ELSE field = raw

C23_Row(k) ==
    /\ Len(Viewed(out[k]).fields) = Len(out[k].cols)
    /\ \A i \in 1..Len(out[k].cols) :
          C23_Field(RawField(out[k], i), Viewed(out[k]).fields[i])

C23_QuotesStripped ==
    \A k \in 1..Len(out) :
        (out[k].kind = "row" /\ ~Viewed(out[k]).panic) => C23_Row(k)

(***************************************************************************)
(* C24.  current_line is the number of rows Csv::next has returned Ok on   *)
(* this reader, the header row that has_header or headers() consumed       *)
(* included: 0 at first, one more after each call that returns a row, the  *)
(* same after a call that returns an Err or None.  The header row was      *)
(* returned Ok to headers() exactly when the header names are set.         *)
(***************************************************************************)
RECURSIVE RowsIn(_)
RowsIn(o) ==
    IF o = <<>> THEN 0
    ELSE RowsIn(Tail(o)) + (IF Head(o).kind = "row" THEN 1 ELSE 0)

HeaderRows == IF headers # <<>> THEN 1 ELSE 0
LineAfter(k) == IF k < Len(calls) THEN calls[k + 1].current_line ELSE current_line

C24_LineCount ==
    ~panicked =>
        /\ current_line = RowsIn(out) + HeaderRows
        /\ out = <<>> /\ headers = <<>> => current_line = 0
        /\ \A k \in 1..Len(out) :
              LineAfter(k) = calls[k].current_line
                               + (IF out[k].kind = "row" THEN 1 ELSE 0)

\* A header row, a data row, a row refused for its field count, then None:
\* the count is 2.
C24_Witness ==
    /\ ~panicked
    /\ headers # <<>>
    /\ Len(out) = 3
    /\ out[1].kind = "row"
    /\ Fails(2, "ColumnMismatch")
    /\ out[3] = ItemNone
    /\ current_line = 2

(***************************************************************************)
(* C25.  An optional whose field is not empty and does not decode as the   *)
(* wrapped kind (a number, a character, an enum) resolves to absent having *)
(* consumed that one field: the view is left as one call of next() leaves  *)
(* it, and the string decoded after the optional is the text of the        *)
(* following field, or EOL when there is none.                             *)
(***************************************************************************)
C25_Absent(t, n) ==
    /\ dec.op = "decode"
    /\ Len(DecFields) >= n
    /\ DecFields[1] # <<>>
    /\ Unfit(t, DecFields[1])

C25_Kind(t) ==
    /\ (Decoding(Tuple(<<Option(t)>>)) /\ C25_Absent(t, 1)) =>
          dec.r = Done(<< <<>> >>, DecView(1))
    /\ (Decoding(Tuple(<<Option(t), StringT>>)) /\ C25_Absent(t, 2)) =>
          dec.r = Done(<< <<>>, DecFields[2] >>, DecView(2))
    /\ (Decoding(Tuple(<<Option(t), StringT>>)) /\ C25_Absent(t, 1)
          /\ Len(DecFields) = 1) =>
          dec.r.res = "EOL"

C25_OneFieldConsumed == \A t \in {Usize, Char, TagEnum} : C25_Kind(t)

\* The same for the kinds that are read with next(): numbers and characters.
C25_NextConsumesOne == \A t \in {Usize, Char} : C25_Kind(t)

\* (Option<usize>, String) on the row s,S.
C25_NumberReached ==
    /\ Decoding(Tuple(<<Option(Usize), StringT>>))
    /\ DecFields = << <<SMALLS>>, <<BIGS>> >>
    /\ dec.r.val = << <<>>, <<BIGS>> >>

(***************************************************************************)
(* C26.  For every row Csv::next returns, on any input, the end of input   *)
(* inside an unclosed quote included: the column view iterated to its end  *)
(* yields as many fields as the row has offsets, every slice it takes is   *)
(* in bounds (a raw field that begins with a quote has two bytes at        *)
(* least), so that the iteration does not panic.                           *)
(***************************************************************************)
C26_InBounds(row) ==
    /\ ~Viewed(row).panic
    /\ Len(Viewed(row).fields) = Len(row.cols)
    /\ \A i \in 1..Len(row.cols) :
          /\ RawStart(row, i) <= row.cols[i]
          /\ row.cols[i] <= Len(row.line)
          /\ (RawField(row, i) # <<>> /\ RawField(row, i)[1] = QUOTE) =>
                Len(RawField(row, i)) >= 2

C26_ColumnsNeverPanic ==
    \A k \in 1..Len(out) : out[k].kind = "row" => C26_InBounds(out[k])

\* The same for the rows whose text is well formed: no quote anomaly and
\* the last quoted section closed.
C26_ClosedRowsNeverPanic ==
    \A k \in 1..Len(out) :
        (out[k].kind = "row" /\ RowEnds(k).m \notin RowAnomalies \cup {"quoted"}) =>
            C26_InBounds(out[k])

\* A row of a quoted empty field and an unquoted one.
C26_ClosedReached ==
    \E k \in 1..Len(out) :
        /\ out[k].kind = "row"
        /\ out[k].line = <<QUOTE, QUOTE, calls[k].delimiter, calls[k].delimiter>>
        /\ Viewed(out[k]).fields = << <<>>, <<>>, <<>> >>

(***************************************************************************)
(* C27.  On a finite input delivered in non-empty chunks without failure,  *)
(* every call of Csv::next that returns a row has consumed a byte of the   *)
(* source at least, every call after one that returned None returns None,  *)
(* and the caller who keeps calling is returned None in the end, and None  *)
(* ever after.                                                             *)
(***************************************************************************)
Pending(r) == Len(Flat(r))

C27_Progress ==
    \A k \in 1..Len(out) :
        /\ out[k].kind = "row" => Pending(ReaderAfter(k)) < Pending(calls[k].reader)
        /\ Pending(ReaderAfter(k)) <= Pending(calls[k].reader)
        /\ \A j \in 1..(k - 1) : out[j] = ItemNone => out[k] = ItemNone

C27_Terminates == []C27_Progress /\ <>[]Drained

\* Two rows out of an input in two chunks, then None repeated.
C27_Witness ==
    /\ Drained
    /\ Len(calls[1].reader) >= 2
    /\ Len(out) = 2 + MaxNone
    /\ out[1].kind = "row"
    /\ out[2].kind = "row"

(***************************************************************************)
(* C28.  On an input without quotes: the step that takes the header row    *)
(* (has_header(true), or headers() after it) splits the first row of the   *)
(* input on the delimiter in force at that step and fixes the expected     *)
(* field count to the number of those names; a delimiter set afterwards    *)
(* splits the rows scanned afterwards, and such a row is refused with      *)
(* ColumnMismatch exactly when its count under the new delimiter differs   *)
(* from the header's count under the old one, flexible mode being off.     *)
(***************************************************************************)
C28_HeaderTaken ==
    (headers = <<>> /\ headers' # <<>> /\ ~Has(input, QUOTE)) =>
        /\ headers'[1] = Split(RowsOf(input)[1], delimiter)
        /\ delimiter' = delimiter
        /\ len' = <<Len(headers'[1])>>
        /\ Flat(reader') = RowRest(input)

C28_Scanned(k) ==
    IF ~calls[k].flexible /\ C6_Count(k) # Len(headers[1])
    THEN out[k] = ItemErr("ColumnMismatch", Len(headers[1]), C6_Count(k))
    ELSE ReadsAs(out[k], Split(RowText(TextAt(k)), calls[k].delimiter))

C28_RowsAfter ==
    (headers # <<>> /\ ~panicked /\ ~Has(input, QUOTE)) =>
        \A k \in 1..Len(out) :
            /\ calls[k].len = <<Len(headers[1])>>
            /\ (Scans(k) /\ TextAt(k) # <<>>) => C28_Scanned(k)

C28_HeaderDelimiter == [][C28_HeaderTaken /\ C28_RowsAfter']_vars

\* The header row `,` taken under the comma (two names), the delimiter then
\* set to z: the row z is returned with its two fields.
C28_Witness ==
    /\ Len(out) = 2
    /\ input = <<COMMA, LF, ZED>>
    /\ headers = << << <<>>, <<>> >> >>
    /\ delimiter = ZED
    /\ ~flexible
    /\ out[1].kind = "row"
    /\ Len(out[1].cols) = 2
    /\ out[2] = ItemNone

\* The same header row, the delimiter then set to z: the row `,`, of one
\* field, is refused.
C28_RefusedReached ==
    /\ Len(out) = 1
    /\ input = <<COMMA, LF, COMMA>>
    /\ headers = << << <<>>, <<>> >> >>
    /\ delimiter = ZED
    /\ out[1] = ItemErr("ColumnMismatch", 2, 1)

====
